---- MODULE Spec2Model ----
(***************************************************************************)
(* A model of tablemaker's text renderer (package tables): the style       *)
(* registry (tableStyles, RegisterTableStyle, GetRenderer), the column     *)
(* model (calculateColumnWidths, getColumnAlignment, parseAlignment), the  *)
(* cell formatter (cleanText, getDisplayLength, formatCellContent) and the *)
(* grid renderer (ASCIITableRenderer.Render); and of its PNG output        *)
(* (package output): font resolution (getDefaultSystemFonts, loadFont),    *)
(* the segmenter (parseLineSegments, classifyTextSegments) and the painter *)
(* (renderText), as GeneratePNG runs them on the text Render returns.      *)
(*                                                                         *)
(* A Go string is modelled as a sequence of characters (runes); a          *)
(* character is a TLA+ string: the character itself when it is ASCII, its  *)
(* code point ("U+2502" for the light vertical bar) otherwise.  The only   *)
(* byte-level                                                              *)
(* operation of the package, strings.ReplaceAll(text, "**", ""), replaces  *)
(* an ASCII pattern, so on valid UTF-8 it acts on runes as it acts on      *)
(* bytes.                                                                  *)
(***************************************************************************)
EXTENDS Integers, Sequences, FiniteSets, TLC

VARIABLES
    tableStyles,   \* the package-level map: lower-cased name -> TableStyle
    registered,    \* history: the RegisterTableStyle calls made, in order
    renderer,      \* GetRenderer's first result: a renderer, or NoRenderer
    err,           \* GetRenderer's second result: an error, or NoError
    config,        \* the TableConfig handed to Render
    colWidths,     \* Render's local colWidths
    result,        \* Render's return value
    call,          \* the operation that ran last, with its arguments
    args,          \* the arguments of a function called on its own
    ret,           \* the return value of that call
    renders,       \* history: each Render made, as [style, config, text]
    png            \* GeneratePNG's outcome: fonts, segments, draws, file, error

vars ==
    <<tableStyles, registered, renderer, err, config, colWidths, result, call, args, ret,
      renders, png>>

---------------------------------------------------------------------------
(* Bounds of the model.                                                    *)

\* longest text handed to the cell functions on their own
MaxTextLen == 5
\* largest nominal width handed to formatCellContent on its own
MaxWidth == 7
\* most header columns of a rendered table
MaxCols == 2
\* most data rows of a rendered table
MaxRows == 2
\* most alignment hints of a rendered table
MaxHints == 1
\* most data cells of a rendered table, over all its rows
MaxCells == 4
\* most RegisterTableStyle calls in one run
MaxRegs == 2
\* most pieces a line handed to parseLineSegments is made of
MaxPieces == 6

---------------------------------------------------------------------------
(* Strings.                                                                *)

Star == "*"
Space == " "
Newline == "\n"

\* the characters texts are drawn from
TextChars == {"a", Star}

RECURSIVE TextsOfLen(_)
TextsOfLen(n) ==
    IF n = 0 THEN {<<>>}
    ELSE {<<c>> \o t : c \in TextChars, t \in TextsOfLen(n - 1)}

Texts(n) == UNION {TextsOfLen(k) : k \in 0..n}

\* strings.Repeat(s, count)
RECURSIVE Repeat(_, _)
Repeat(s, count) == IF count <= 0 THEN <<>> ELSE s \o Repeat(s, count - 1)

\* unicode.ToLower: the upper-case ASCII letters map to their lower-case
\* forms, every other character of the model to itself
LowerLetter ==
    [A |-> "a", B |-> "b", C |-> "c", D |-> "d", E |-> "e", F |-> "f", G |-> "g",
     H |-> "h", I |-> "i", J |-> "j", K |-> "k", L |-> "l", M |-> "m", N |-> "n",
     O |-> "o", P |-> "p", Q |-> "q", R |-> "r", S |-> "s", T |-> "t", U |-> "u",
     V |-> "v", W |-> "w", X |-> "x", Y |-> "y", Z |-> "z"]

LowerChar(c) == IF c \in DOMAIN LowerLetter THEN LowerLetter[c] ELSE c

\* strings.ToLower(s)
ToLower(s) == [i \in 1..Len(s) |-> LowerChar(s[i])]

---------------------------------------------------------------------------
(* Alignment.                                                              *)

AlignLeft == "left"
AlignCenter == "center"
AlignRight == "right"

\* parseAlignment without the lower-casing: a plausible slip
parseAlignmentCaseSensitive(align) ==
    CASE align = <<"c","e","n","t","e","r">> -> AlignCenter
      [] align = <<"c","e","n","t","r","e">> -> AlignCenter
      [] align = <<"r","i","g","h","t">> -> AlignRight
      [] OTHER -> AlignLeft

parseAlignment(align) ==
    LET lower == ToLower(align) IN
    CASE lower = <<"c","e","n","t","e","r">> -> AlignCenter
      [] lower = <<"c","e","n","t","r","e">> -> AlignCenter
      [] lower = <<"r","i","g","h","t">> -> AlignRight
      [] OTHER -> AlignLeft

---------------------------------------------------------------------------
(* Cell text.                                                              *)

\* strings.ReplaceAll(text, "**", ""): non-overlapping matches, left to right
RECURSIVE cleanText(_)
cleanText(text) ==
    IF Len(text) < 2 THEN text
    ELSE IF text[1] = Star /\ text[2] = Star
         THEN cleanText(SubSeq(text, 3, Len(text)))
         ELSE <<text[1]>> \o cleanText(Tail(text))

\* getDisplayLength that counts the markers too: a plausible slip
getDisplayLengthRaw(text) == Len(text)

getDisplayLength(text) == Len(cleanText(text))

\* formatCellContent that centres whatever the alignment: a plausible slip
formatCellContentCentered(content, width, alignment) ==
    LET cleanContent == cleanText(content)
        contentLen == getDisplayLength(content)
        w == IF width < contentLen + 2 THEN contentLen + 2 ELSE width
        spacesNeeded == w - contentLen
        leftSpaces == spacesNeeded \div 2
        rightSpaces == spacesNeeded - leftSpaces
    IN  Repeat(<<Space>>, leftSpaces) \o cleanContent \o Repeat(<<Space>>, rightSpaces)

formatCellContent(content, width, alignment) ==
    LET cleanContent == cleanText(content)
        contentLen == getDisplayLength(content)
        \* Make sure we have enough space
        w == IF width < contentLen + 2 THEN contentLen + 2 ELSE width
        spacesNeeded == w - contentLen
    IN  CASE alignment = AlignCenter ->
               LET leftSpaces == spacesNeeded \div 2
                   rightSpaces == spacesNeeded - leftSpaces
               IN  Repeat(<<Space>>, leftSpaces) \o cleanContent \o Repeat(<<Space>>, rightSpaces)
          [] alignment = AlignRight ->
               LET leftSpaces == spacesNeeded - 1
               IN  Repeat(<<Space>>, leftSpaces) \o cleanContent \o <<Space>>
          [] OTHER ->
               LET rightSpaces == spacesNeeded - 1
               IN  <<Space>> \o cleanContent \o Repeat(<<Space>>, rightSpaces)

---------------------------------------------------------------------------
(* Column model.  Go indexes from 0, the model from 1.                     *)

\* the first loop of calculateColumnWidths: the header's display length
headerWidths(headers) == [i \in 1..Len(headers) |-> getDisplayLength(headers[i])]

\* one pass of the inner loop that also lets a cell past the header range
\* widen the last column: a plausible slip
raiseWidthsClamped(widths, row) ==
    [i \in 1..Len(widths) |->
        LET cells == {j \in 1..Len(row) : j = i \/ (i = Len(widths) /\ j > i)}
            lens == {getDisplayLength(row[j]) : j \in cells} \cup {widths[i]}
        IN  CHOOSE m \in lens : \A n \in lens : n <= m]

\* one pass of the inner loop of calculateColumnWidths over a row
raiseWidths(widths, row) ==
    [i \in 1..Len(widths) |->
        IF i <= Len(row) /\ getDisplayLength(row[i]) > widths[i]
        THEN getDisplayLength(row[i])
        ELSE widths[i]]

\* the outer loop of calculateColumnWidths over config.Rows
RECURSIVE rowWidths(_, _)
rowWidths(widths, rows) ==
    IF rows = <<>> THEN widths
    ELSE rowWidths(raiseWidths(widths, Head(rows)), Tail(rows))

\* calculateColumnWidths with one space of padding only: a plausible slip
calculateColumnWidthsNarrow(cfg) ==
    IF Len(cfg.Headers) = 0 THEN <<>>
    ELSE LET raw == rowWidths(headerWidths(cfg.Headers), cfg.Rows)
         IN  [i \in 1..Len(raw) |-> raw[i] + 1]

calculateColumnWidths(cfg) ==
    IF Len(cfg.Headers) = 0 THEN <<>>
    ELSE LET raw == rowWidths(headerWidths(cfg.Headers), cfg.Rows)
         \* Add 2 spaces padding (1 left + 1 right)
         IN  [i \in 1..Len(raw) |-> raw[i] + 2]

getColumnAlignment(cfg, columnIndex) ==
    IF columnIndex <= Len(cfg.Alignment)
    THEN parseAlignment(cfg.Alignment[columnIndex])
    ELSE AlignLeft

---------------------------------------------------------------------------
(* Border styles.                                                          *)

\* tableStyles["single-line-full"]
SingleLineStyle ==
    [TopLeft |-> <<"U+250C">>, TopRight |-> <<"U+2510">>,
     BottomLeft |-> <<"U+2514">>, BottomRight |-> <<"U+2518">>,
     Horizontal |-> <<"U+2500">>, Vertical |-> <<"U+2502">>,
     TopJoin |-> <<"U+252C">>, BottomJoin |-> <<"U+2534">>,
     LeftJoin |-> <<"U+251C">>, RightJoin |-> <<"U+2524">>,
     Cross |-> <<"U+253C">>]

\* tableStyles["double-line-full"]
DoubleLineStyle ==
    [TopLeft |-> <<"U+2554">>, TopRight |-> <<"U+2557">>,
     BottomLeft |-> <<"U+255A">>, BottomRight |-> <<"U+255D">>,
     Horizontal |-> <<"U+2550">>, Vertical |-> <<"U+2551">>,
     TopJoin |-> <<"U+2566">>, BottomJoin |-> <<"U+2569">>,
     LeftJoin |-> <<"U+2560">>, RightJoin |-> <<"U+2563">>,
     Cross |-> <<"U+256C">>]

\* a style a caller registers: eleven glyphs of its own
PlainStyle ==
    [TopLeft |-> <<"<">>, TopRight |-> <<">">>,
     BottomLeft |-> <<"{">>, BottomRight |-> <<"}">>,
     Horizontal |-> <<"-">>, Vertical |-> <<"|">>,
     TopJoin |-> <<"^">>, BottomJoin |-> <<"_">>,
     LeftJoin |-> <<"[">>, RightJoin |-> <<"]">>,
     Cross |-> <<"+">>]

SingleLineFull == <<"s","i","n","g","l","e","-","l","i","n","e","-","f","u","l","l">>
DoubleLineFull == <<"d","o","u","b","l","e","-","l","i","n","e","-","f","u","l","l">>

\* the initial value of the package variable tableStyles
builtinStyles ==
    [n \in {SingleLineFull, DoubleLineFull} |->
        IF n = SingleLineFull THEN SingleLineStyle ELSE DoubleLineStyle]

---------------------------------------------------------------------------
(* Grid renderer.                                                          *)

\* the guard with && for ||: a plausible slip
isEmptyTableBoth(cfg) == Len(cfg.Rows) = 0 /\ Len(cfg.Headers) = 0

\* the guard of Render's early return
isEmptyTable(cfg) == Len(cfg.Rows) = 0 \/ Len(cfg.Headers) = 0

\* the loop every border line runs: the horizontal glyph repeated per column,
\* the join glyph between columns
RECURSIVE borderRuns(_, _, _, _)
borderRuns(horizontal, join, widths, i) ==
    IF i > Len(widths) THEN <<>>
    ELSE Repeat(horizontal, widths[i])
         \o (IF i < Len(widths) THEN join ELSE <<>>)
         \o borderRuns(horizontal, join, widths, i + 1)

topBorder(style, widths) ==
    style.TopLeft \o borderRuns(style.Horizontal, style.TopJoin, widths, 1)
    \o style.TopRight \o <<Newline>>

headerSeparator(style, widths) ==
    style.LeftJoin \o borderRuns(style.Horizontal, style.Cross, widths, 1)
    \o style.RightJoin \o <<Newline>>

rowSeparator(style, widths) ==
    style.LeftJoin \o borderRuns(style.Horizontal, style.Cross, widths, 1)
    \o style.RightJoin \o <<Newline>>

bottomBorder(style, widths) ==
    style.BottomLeft \o borderRuns(style.Horizontal, style.BottomJoin, widths, 1)
    \o style.BottomRight \o <<Newline>>

\* the cells of one data row, from cell i on: each formatted cell followed by
\* the vertical glyph; a cell past the last width is skipped
RECURSIVE rowCells(_, _, _, _, _)
rowCells(style, cfg, widths, cells, i) ==
    IF i > Len(cells) THEN <<>>
    ELSE (IF i <= Len(widths)
          THEN formatCellContent(cells[i], widths[i], getColumnAlignment(cfg, i))
               \o style.Vertical
          ELSE <<>>)
         \o rowCells(style, cfg, widths, cells, i + 1)

\* the header loop, from header i on: every header has a width
RECURSIVE headerCells(_, _, _, _)
headerCells(style, cfg, widths, i) ==
    IF i > Len(cfg.Headers) THEN <<>>
    ELSE formatCellContent(cfg.Headers[i], widths[i], getColumnAlignment(cfg, i))
         \o style.Vertical
         \o headerCells(style, cfg, widths, i + 1)

headerRow(style, cfg, widths) ==
    style.Vertical \o headerCells(style, cfg, widths, 1) \o <<Newline>>

\* a data row that renders an empty cell for every column the row lacks: a
\* plausible variant
dataRowPadded(style, cfg, widths, row) ==
    LET padded == row \o [i \in 1..(Len(widths) - Len(row)) |-> <<>>]
    IN  style.Vertical \o rowCells(style, cfg, widths, padded, 1) \o <<Newline>>

\* one pass of the loop over config.Rows, without the separator
dataRow(style, cfg, widths, row) ==
    style.Vertical \o rowCells(style, cfg, widths, row, 1) \o <<Newline>>

\* the loop over config.Rows with a separator after every row, the last
\* included: a plausible slip
RECURSIVE dataRowsSeparated(_, _, _, _)
dataRowsSeparated(style, cfg, widths, rowIdx) ==
    IF rowIdx > Len(cfg.Rows) THEN <<>>
    ELSE dataRow(style, cfg, widths, cfg.Rows[rowIdx])
         \o rowSeparator(style, widths)
         \o dataRowsSeparated(style, cfg, widths, rowIdx + 1)

\* the loop over config.Rows, from row rowIdx on
RECURSIVE dataRows(_, _, _, _)
dataRows(style, cfg, widths, rowIdx) ==
    IF rowIdx > Len(cfg.Rows) THEN <<>>
    ELSE dataRow(style, cfg, widths, cfg.Rows[rowIdx])
         \* Row separator (except for last row)
         \o (IF rowIdx < Len(cfg.Rows) THEN rowSeparator(style, widths) ELSE <<>>)
         \o dataRows(style, cfg, widths, rowIdx + 1)

\* (r *ASCIITableRenderer) Render(config), r.Style = style
Render(style, cfg) ==
    IF isEmptyTable(cfg) THEN <<>>
    ELSE LET widths == calculateColumnWidths(cfg)
         IN  topBorder(style, widths)
             \o headerRow(style, cfg, widths)
             \o headerSeparator(style, widths)
             \o dataRows(style, cfg, widths, 1)
             \o bottomBorder(style, widths)

---------------------------------------------------------------------------
(* Inputs.                                                                 *)

NoRenderer == [kind |-> "nil"]
NoError == [kind |-> "nil"]
NoValue == [kind |-> "none"]
NoCall == [op |-> "none"]
NoPNG == [kind |-> "none"]

\* all sequences over S of length at most n
RECURSIVE SeqsUpTo(_, _)
SeqsUpTo(S, n) ==
    IF n = 0 THEN {<<>>}
    ELSE LET shorter == SeqsUpTo(S, n - 1)
         IN  shorter \cup {Append(q, x) : q \in {t \in shorter : Len(t) = n - 1}, x \in S}

\* the cell texts of the rendered tables: a plain one, and a wider emphasized one
TableCells == {<<"a">>, <<Star, Star, "a", "a", Star, Star>>}

\* the alignment hints of the rendered tables
TableHints == {<<"C","e","n","t","r","e">>, <<"R","I","G","H","T">>}

\* a row has up to one cell more than the widest header line
TableRows == SeqsUpTo(TableCells, MaxCols + 1)

\* all lists of at most n rows that hold at most cells cells in all
RECURSIVE RowLists(_, _)
RowLists(n, cells) ==
    IF n = 0 THEN {<<>>}
    ELSE {<<>>} \cup
         UNION {{<<row>> \o rest : rest \in RowLists(n - 1, cells - Len(row))} :
                   row \in {r \in TableRows : Len(r) <= cells}}

\* the TableConfigs handed to Render (Type is GetRenderer's argument, Name
\* and PNG are not read by the renderer)
TableConfigs ==
    [Headers : SeqsUpTo(TableCells, MaxCols),
     Rows : RowLists(MaxRows, MaxCells),
     Alignment : SeqsUpTo(TableHints, MaxHints)]

\* the style the renderer of the rendered tables holds: the one GetRenderer
\* returns for "single-line-full" before any registration
RenderStyles == {SingleLineStyle}

\* the alignment hints handed to parseAlignment on its own
Hints ==
    {<<"c","e","n","t","e","r">>, <<"C","E","N","T","E","R">>, <<"C","e","n","t","e","r">>,
     <<"c","e","n","t","r","e">>, <<"C","e","n","t","r","E">>,
     <<"r","i","g","h","t">>, <<"R","i","g","h","t">>, <<"R","I","G","H","T">>,
     <<"l","e","f","t">>, <<"L","E","F","T">>,
     <<>>, <<"c","e","n","t","e","r","e","d">>, <<"r","i","g","h","t"," ">>,
     <<"m","i","d","d","l","e">>}

\* the names styles are registered under
RegNames ==
    {<<"S","i","n","g","l","e","-","L","i","n","e","-","F","u","l","l">>,
     <<"p","l","a","i","n">>, <<"P","L","A","I","N">>}

\* the names styles are looked up under
LookupNames ==
    RegNames \cup
    {SingleLineFull, DoubleLineFull,
     <<"D","O","U","B","L","E","-","L","I","N","E","-","F","U","L","L">>,
     <<"P","l","a","i","n">>, <<"n","o","n","e">>}

\* the styles callers register
RegStyles == {PlainStyle, DoubleLineStyle}

\* the table of the pipeline: headers [a, **aa**], rows [a, a, a] and [**aa**]
PipelineConfig ==
    [Headers |-> <<<<"a">>, <<Star, Star, "a", "a", Star, Star>>>>,
     Rows |-> << <<<<"a">>, <<"a">>, <<"a">>>>, <<<<Star, Star, "a", "a", Star, Star>>>> >>,
     Alignment |-> <<<<"R","I","G","H","T">>>>]

---------------------------------------------------------------------------
(* The style registry.                                                     *)

\* all orders of the elements of S
RECURSIVE Orders(_)
Orders(S) ==
    IF S = {} THEN {<<>>}
    ELSE UNION {{<<x>> \o rest : rest \in Orders(S \ {x})} : x \in S}

\* getAvailableTypes that lists the built-in names only: a plausible slip
getAvailableTypesBuiltin == Orders(DOMAIN builtinStyles)

\* getAvailableTypes(): the keys of tableStyles, in the order the map
\* iteration yields them, which Go leaves unspecified
getAvailableTypes == Orders(DOMAIN tableStyles)

\* the map after tableStyles[name] = style, the name as given: a plausible slip
storeStyleRaw(styles, name, style) ==
    [k \in DOMAIN styles \cup {name} |-> IF k = name THEN style ELSE styles[k]]

\* the map after tableStyles[strings.ToLower(name)] = style
storeStyle(styles, name, style) ==
    [k \in DOMAIN styles \cup {ToLower(name)} |->
        IF k = ToLower(name) THEN style ELSE styles[k]]

\* a registry whose renderers share the map's entry, so that overwriting a
\* name reaches the renderer looked up under it: a plausible slip
RegisterTableStyleShared(name, style) ==
    /\ Len(registered) < MaxRegs
    /\ tableStyles' = storeStyle(tableStyles, name, style)
    /\ registered' = Append(registered, [name |-> name, style |-> style])
    /\ call' = [op |-> "RegisterTableStyle", name |-> name, style |-> style]
    /\ renderer' = IF /\ renderer # NoRenderer
                      /\ ToLower(name) \in DOMAIN tableStyles
                      /\ renderer.Style = tableStyles[ToLower(name)]
                   THEN [renderer EXCEPT !.Style = style]
                   ELSE renderer
    /\ UNCHANGED <<err, config, colWidths, result, args, ret, renders, png>>

RegisterTableStyle(name, style) ==
    /\ Len(registered) < MaxRegs
    /\ tableStyles' = storeStyle(tableStyles, name, style)
    /\ registered' = Append(registered, [name |-> name, style |-> style])
    /\ call' = [op |-> "RegisterTableStyle", name |-> name, style |-> style]
    /\ UNCHANGED <<renderer, err, config, colWidths, result, args, ret, renders, png>>

\* the key GetRenderer looks up
styleKey(tableType) == ToLower(tableType)

GetRenderer(tableType) ==
    /\ call' = [op |-> "GetRenderer", tableType |-> tableType]
    /\ IF styleKey(tableType) \notin DOMAIN tableStyles
       THEN \E types \in getAvailableTypes :
               /\ renderer' = NoRenderer
               /\ err' = [kind |-> "unknown table type",
                          tableType |-> tableType, types |-> types]
       ELSE /\ renderer' = [kind |-> "ASCIITableRenderer",
                            Style |-> tableStyles[styleKey(tableType)]]
            /\ err' = NoError
    /\ UNCHANGED <<tableStyles, registered, config, colWidths, result, args, ret,
                   renders, png>>

\* whether a renderer of this style has rendered this table before
RenderedBefore(style, cfg) == \E r \in renders : r.style = style /\ r.config = cfg

\* a Render that writes to a builder kept from the render before: a plausible slip
RenderTableAppending ==
    /\ renderer # NoRenderer
    /\ call' = [op |-> "Render", repeat |-> RenderedBefore(renderer.Style, config)]
    /\ result' = result \o Render(renderer.Style, config)
    /\ colWidths' = IF isEmptyTable(config) THEN <<>> ELSE calculateColumnWidths(config)
    /\ renders' = renders \cup {[style |-> renderer.Style, config |-> config,
                                  text |-> result']}
    /\ UNCHANGED <<tableStyles, registered, renderer, err, config, args, ret, png>>

\* renderer.Render(config) on the renderer GetRenderer returned; the call
\* record notes whether it repeats an earlier render
RenderTable ==
    /\ renderer # NoRenderer
    /\ call' = [op |-> "Render", repeat |-> RenderedBefore(renderer.Style, config)]
    /\ result' = Render(renderer.Style, config)
    /\ colWidths' = IF isEmptyTable(config) THEN <<>> ELSE calculateColumnWidths(config)
    /\ renders' = renders \cup {[style |-> renderer.Style, config |-> config,
                                  text |-> result']}
    /\ UNCHANGED <<tableStyles, registered, renderer, err, config, args, ret, png>>

---------------------------------------------------------------------------
(* The PNG output (package output): the segmenter.                         *)
(* Offsets count characters from 0 and a match is the tuple                *)
(* <<start, end, groupStart, groupEnd>> of FindAllStringSubmatchIndex.     *)

\* TextType
ASCIIText == 0
HeaderText == 1
ContentText == 2

\* asciiChars of parseLineSegments: the glyphs of the two built-in styles
asciiChars ==
    <<"U+250C", "U+2510", "U+2514", "U+2518", "U+251C", "U+2524", "U+252C", "U+2534",
      "U+253C", "U+2500", "U+2502", "U+2554", "U+2557", "U+255A", "U+255D", "U+2560",
      "U+2563", "U+2566", "U+2569", "U+256C", "U+2550", "U+2551">>

\* the Go slice s[from:to]
Slice(s, from, to) == SubSeq(s, from + 1, to)

\* strings.ContainsRune(s, char)
ContainsRune(s, char) == \E k \in 1..Len(s) : s[k] = char

\* the classification loop of classifyTextSegments, from character i on
RECURSIVE classifyLoop(_, _, _, _, _, _)
classifyLoop(text, allASCIIChars, i, segments, currentSegment, currentType) ==
    IF i > Len(text)
    THEN \* Add final segment
         IF Len(currentSegment) > 0
         THEN Append(segments, [Text |-> currentSegment, Type |-> currentType])
         ELSE segments
    ELSE LET char == text[i]
             charType == IF ContainsRune(allASCIIChars, char) THEN ASCIIText ELSE ContentText
             current == IF currentType = -1 THEN charType ELSE currentType
         IN  IF charType = current
             THEN classifyLoop(text, allASCIIChars, i + 1, segments,
                               Append(currentSegment, char), current)
             ELSE classifyLoop(text, allASCIIChars, i + 1,
                               IF Len(currentSegment) > 0
                               THEN Append(segments, [Text |-> currentSegment, Type |-> current])
                               ELSE segments,
                               <<char>>, charType)

\* classifyTextSegments(text, asciiChars)
classifyTextSegments(text, tableChars) ==
    classifyLoop(text, tableChars \o asciiChars, 1, <<>>, <<>>, -1)

\* the offset after the longest run of [^*] that starts at offset from
RECURSIVE nonStarRun(_, _)
nonStarRun(line, from) ==
    IF from < Len(line) /\ line[from + 1] # Star THEN nonStarRun(line, from + 1) ELSE from

\* the match of \*\*([^*]+)\*\* that starts at offset i, or <<>>: the class
\* [^*] cannot give back a character to the closing \*\*, so the group is the
\* whole run
boldMatchAt(line, i) ==
    LET groupEnd == nonStarRun(line, i + 2)
    IN  IF /\ i + 2 <= Len(line)
           /\ line[i + 1] = Star /\ line[i + 2] = Star
           /\ groupEnd > i + 2
           /\ groupEnd + 2 <= Len(line)
           /\ line[groupEnd + 1] = Star /\ line[groupEnd + 2] = Star
        THEN <<i, groupEnd + 2, i + 2, groupEnd>>
        ELSE <<>>

\* the leftmost non-overlapping matches from offset i on
RECURSIVE boldMatchesFrom(_, _)
boldMatchesFrom(line, i) ==
    IF i >= Len(line) THEN <<>>
    ELSE LET match == boldMatchAt(line, i)
         IN  IF match # <<>>
             THEN <<match>> \o boldMatchesFrom(line, match[2])
             ELSE boldMatchesFrom(line, i + 1)

\* boldPattern.FindAllStringSubmatchIndex(line, -1)
FindAllStringSubmatchIndex(line) == boldMatchesFrom(line, 0)

\* a bold segment holding the whole match, markers included: a plausible slip
boldSegmentWithMarkers(line, match) ==
    [Text |-> Slice(line, match[1], match[2]), Type |-> HeaderText]

\* TextSegment{Text: line[match[2]:match[3]], Type: HeaderText}
boldSegment(line, match) ==
    [Text |-> Slice(line, match[3], match[4]), Type |-> HeaderText]

\* the loop over boldMatches and the remaining text
RECURSIVE parseLoop(_, _, _, _, _)
parseLoop(line, boldMatches, k, lastIndex, segments) ==
    IF k > Len(boldMatches)
    THEN \* Add remaining text
         IF lastIndex < Len(line)
         THEN segments \o classifyTextSegments(Slice(line, lastIndex, Len(line)), asciiChars)
         ELSE segments
    ELSE LET start == boldMatches[k][1]
             end == boldMatches[k][2]
             before == IF start > lastIndex
                       THEN classifyTextSegments(Slice(line, lastIndex, start), asciiChars)
                       ELSE <<>>
         IN  parseLoop(line, boldMatches, k + 1, end,
                       segments \o before \o <<boldSegment(line, boldMatches[k])>>)

\* parseLineSegments(line)
parseLineSegments(line) ==
    parseLoop(line, FindAllStringSubmatchIndex(line), 1, 0, <<>>)

---------------------------------------------------------------------------
(* The PNG output: font resolution.  A font path or name is a TLA+ string, *)
(* "" the empty one; files is the set of TTF files on disk.                *)

\* the font files a run may find on disk
SansFile == "/usr/share/fonts/DejaVuSans.ttf"
BoldFile == "/usr/share/fonts/DejaVuSans-Bold.ttf"
MonoFile == "/usr/share/fonts/DejaVuSansMono.ttf"
CustomFile == "./fonts/custom.ttf"
FontFiles == {SansFile, BoldFile, MonoFile, CustomFile}

\* SystemSansSerif, SystemSansSerifBold, SystemMonospace: the first name of each
SystemSansSerif == [Names |-> <<"DejaVu Sans">>]
SystemSansSerifBold == [Names |-> <<"DejaVu Sans Bold">>]
SystemMonospace == [Names |-> <<"DejaVu Sans Mono">>]

\* the file that the directory search of findSystemFont tries for a name
FileOfName ==
    ("DejaVu Sans" :> SansFile) @@ ("DejaVu Sans Bold" :> BoldFile)
    @@ ("DejaVu Sans Mono" :> MonoFile)

\* findSystemFont(fontNames): the file of the first name that is on disk
findSystemFont(fontNames, files) ==
    LET hits == {k \in 1..Len(fontNames) :
                    /\ fontNames[k] \in DOMAIN FileOfName
                    /\ FileOfName[fontNames[k]] \in files}
        first == CHOOSE k \in hits : \A j \in hits : k <= j
    IN  IF hits = {} THEN [path |-> "", err |-> [kind |-> "font not found"]]
        ELSE [path |-> FileOfName[fontNames[first]], err |-> NoError]

\* resolveSystemFont(fontPath): the path itself when os.Stat finds it, else
\* the search for it as a font name
resolveSystemFont(fontPath, files) ==
    IF fontPath \in files THEN [path |-> fontPath, err |-> NoError]
    ELSE findSystemFont(<<fontPath>>, files)

\* getDefaultSystemFonts(): regular, bold, monospace, error
getDefaultSystemFonts(files) ==
    LET sans == findSystemFont(SystemSansSerif.Names, files)
        bold == findSystemFont(SystemSansSerifBold.Names, files)
        mono == findSystemFont(SystemMonospace.Names, files)
        \* Use bold as fallback for regular
        sansSerifPath == IF sans.err # NoError THEN bold.path ELSE sans.path
        \* Use regular as fallback for bold
        boldPath == IF bold.err # NoError THEN sansSerifPath ELSE bold.path
        \* Use sans-serif as fallback for monospace
        monospacePath == IF mono.err # NoError THEN sansSerifPath ELSE mono.path
    IN  IF sans.err # NoError /\ bold.err # NoError /\ mono.err # NoError
        THEN [content |-> "", title |-> "", mono |-> "",
              err |-> [kind |-> "no system fonts found"]]
        ELSE [content |-> sansSerifPath, title |-> boldPath, mono |-> monospacePath,
              err |-> NoError]

\* loadFont that hands back a font whatever the path: a plausible slip
loadFontUnchecked(fontPath, files) == [font |-> fontPath, err |-> NoError]

\* loadFont(fontPath): the font parsed from the resolved file
loadFont(fontPath, files) ==
    LET resolved == resolveSystemFont(fontPath, files)
    IN  IF resolved.err # NoError
        THEN [font |-> "", err |-> [kind |-> "failed to resolve font"]]
        ELSE [font |-> resolved.path, err |-> NoError]

---------------------------------------------------------------------------
(* The PNG output: layout and painting.                                    *)

\* the left and top padding of renderText
Padding == 50
\* the padding calculateImageDimensions adds to each dimension
ImagePadding == 100

\* the metrics of each font, in sixteenths of the font size
FontTable ==
    (SansFile :> [Ascent |-> 12, Descent |-> 4, Advance |-> 9])
    @@ (BoldFile :> [Ascent |-> 12, Descent |-> 4, Advance |-> 11])
    @@ (MonoFile :> [Ascent |-> 13, Descent |-> 3, Advance |-> 10])
    @@ (CustomFile :> [Ascent |-> 14, Descent |-> 5, Advance |-> 8])

\* newFace(f, size): the face of font f at a size, with its metrics
newFace(f, size) ==
    [font |-> f, size |-> size,
     Ascent |-> (FontTable[f].Ascent * size) \div 16,
     Descent |-> (FontTable[f].Descent * size) \div 16,
     Advance |-> (FontTable[f].Advance * size) \div 16]

\* lineHeight(face)
lineHeight(face) == face.Ascent + face.Descent

\* font.MeasureString(face, s), in pixels
MeasureString(face, s) == face.Advance * Len(s)

\* the text of a line: its segments' texts written to one builder
RECURSIVE fullText(_)
fullText(lineSegs) ==
    IF lineSegs = <<>> THEN <<>> ELSE Head(lineSegs).Text \o fullText(Tail(lineSegs))

\* calculateImageDimensions(segments, fonts, cfg)
calculateImageDimensions(segments, fonts, cfg) ==
    LET monoFace == newFace(fonts[ASCIIText], cfg.ASCIIFont.Size)
        lh == lineHeight(monoFace)
        widths == {MeasureString(monoFace, fullText(segments[k])) : k \in 1..Len(segments)}
        maxWidth == IF widths = {} THEN 0 ELSE CHOOSE w \in widths : \A v \in widths : v <= w
    IN  [width |-> maxWidth + ImagePadding, height |-> Len(segments) * lh + ImagePadding]

\* renderText(img, segments, fonts, cfg): the DrawString calls it makes, each
\* with the font and size set on its context and the point it draws at
renderText(segments, fonts, cfg) ==
    LET monoFace == newFace(fonts[ASCIIText], cfg.ASCIIFont.Size)
        lh == lineHeight(monoFace)
        ascent == monoFace.Ascent
    IN  [k \in 1..Len(segments) |->
            [text |-> fullText(segments[k]),
             font |-> fonts[ASCIIText], size |-> cfg.ASCIIFont.Size,
             x |-> Padding, y |-> Padding + ascent + (k - 1) * lh]]

\* strings.Split(s, sep), sep one character
RECURSIVE Split(_, _)
Split(s, sep) ==
    LET hits == {i \in 1..Len(s) : s[i] = sep}
        first == CHOOSE i \in hits : \A j \in hits : i <= j
    IN  IF hits = {} THEN <<s>>
        ELSE <<SubSeq(s, 1, first - 1)>> \o Split(SubSeq(s, first + 1, Len(s)), sep)

\* strings.TrimSpace(s)
RECURSIVE TrimSpace(_)
TrimSpace(s) ==
    IF s = <<>> THEN s
    ELSE IF Head(s) \in {Space, Newline} THEN TrimSpace(Tail(s))
    ELSE IF s[Len(s)] \in {Space, Newline} THEN TrimSpace(SubSeq(s, 1, Len(s) - 1))
    ELSE s

\* the loop of GeneratePNG over the lines: blank lines are skipped
RECURSIVE segmentsOf(_)
segmentsOf(lines) ==
    IF lines = <<>> THEN <<>>
    ELSE IF TrimSpace(Head(lines)) = <<>> THEN segmentsOf(Tail(lines))
    ELSE <<parseLineSegments(Head(lines))>> \o segmentsOf(Tail(lines))

\* GeneratePNG(tableText, config, outputPath) on a disk holding the fonts of
\* files, where outputPath can be created or cannot
GeneratePNG(tableText, cfg, files, creatable) ==
    LET useDefaults == cfg.ASCIIFont.Path = "" \/ cfg.TitleFont.Path = ""
                       \/ cfg.ContentFont.Path = ""
        sys == getDefaultSystemFonts(files)
        asciiPath == IF useDefaults /\ cfg.ASCIIFont.Path = "" THEN sys.mono
                     ELSE cfg.ASCIIFont.Path
        titlePath == IF useDefaults /\ cfg.TitleFont.Path = "" THEN sys.title
                     ELSE cfg.TitleFont.Path
        contentPath == IF useDefaults /\ cfg.ContentFont.Path = "" THEN sys.content
                       ELSE cfg.ContentFont.Path
        asciiFont == loadFont(asciiPath, files)
        titleFont == loadFont(titlePath, files)
        contentFont == loadFont(contentPath, files)
        fonts == (ASCIIText :> asciiFont.font) @@ (HeaderText :> titleFont.font)
                 @@ (ContentText :> contentFont.font)
        segments == segmentsOf(Split(tableText, Newline))
        failed(kind) == [err |-> [kind |-> kind], fonts |-> <<>>, segments |-> <<>>,
                         draws |-> <<>>, file |-> FALSE]
    IN  /\ call' = [op |-> "GeneratePNG", config |-> cfg, files |-> files,
                    creatable |-> creatable]
        /\ png' = IF useDefaults /\ sys.err # NoError
                  THEN failed("failed to find system fonts and no paths specified")
                  ELSE IF asciiFont.err # NoError THEN failed("failed to load ASCII font")
                  ELSE IF titleFont.err # NoError THEN failed("failed to load title font")
                  ELSE IF contentFont.err # NoError THEN failed("failed to load content font")
                  ELSE [err |-> IF creatable THEN NoError
                                ELSE [kind |-> "failed to create output file"],
                        fonts |-> fonts, segments |-> segments,
                        draws |-> renderText(segments, fonts, cfg),
                        size |-> calculateImageDimensions(segments, fonts, cfg),
                        file |-> creatable]
        /\ UNCHANGED <<tableStyles, registered, renderer, err, config, colWidths, result,
                       args, ret, renders>>

\* the PNG section of the pipeline's JSON: no paths, so system fonts
PipelinePNG ==
    [ASCIIFont |-> [Path |-> "", Size |-> 16], TitleFont |-> [Path |-> "", Size |-> 16],
     ContentFont |-> [Path |-> "", Size |-> 16]]

\* the disk of the pipeline: all three system fonts installed
PipelineFiles == {SansFile, BoldFile, MonoFile}

Init ==
    /\ tableStyles = builtinStyles
    /\ registered = <<>>
    /\ renderer = NoRenderer
    /\ err = NoError
    /\ config = PipelineConfig
    /\ colWidths = <<>>
    /\ result = <<>>
    /\ call = NoCall
    /\ args = NoValue
    /\ ret = NoValue
    /\ renders = {}
    /\ png = NoPNG

\* main hands GeneratePNG the text Render returned, unless it is empty, and
\* returns when GeneratePNG has
Next ==
    \/ /\ call.op # "GeneratePNG"
       /\ \E name \in RegNames, style \in RegStyles : RegisterTableStyle(name, style)
    \/ /\ call.op # "GeneratePNG"
       /\ \E tableType \in LookupNames : GetRenderer(tableType)
    \/ /\ call.op # "GeneratePNG"
       /\ RenderTable
    \/ /\ call.op = "Render" /\ result # <<>>
       /\ GeneratePNG(result, PipelinePNG, PipelineFiles, TRUE)

Spec == Init /\ [][Next]_vars

---------------------------------------------------------------------------
(* The functions on their own: Render on every table of TableConfigs by a  *)
(* renderer of each style, and the cell functions on every text.           *)

\* "**" + text + "**"
Emphasized(text) == <<Star, Star>> \o text \o <<Star, Star>>

\* the argument lists of the cell functions
CellArgs ==
    [fn : {"parseAlignment"}, align : Hints]
    \cup [fn : {"getDisplayLength"}, text : Texts(MaxTextLen)]
    \cup [fn : {"formatCellContent"}, content : Texts(MaxTextLen),
          width : 0..MaxWidth, alignment : {AlignLeft, AlignCenter, AlignRight}]

CallParseAlignment ==
    /\ args # NoValue /\ args.fn = "parseAlignment"
    /\ call' = [op |-> "parseAlignment"]
    /\ ret' = parseAlignment(args.align)
    /\ UNCHANGED <<tableStyles, registered, renderer, err, config, colWidths, result, args,
                   renders, png>>

\* getDisplayLength(text) and getDisplayLength("**" + text + "**")
CallGetDisplayLength ==
    /\ args # NoValue /\ args.fn = "getDisplayLength"
    /\ call' = [op |-> "getDisplayLength"]
    /\ ret' = [plain |-> getDisplayLength(args.text),
               emphasized |-> getDisplayLength(Emphasized(args.text))]
    /\ UNCHANGED <<tableStyles, registered, renderer, err, config, colWidths, result, args,
                   renders, png>>

CallFormatCellContent ==
    /\ args # NoValue /\ args.fn = "formatCellContent"
    /\ call' = [op |-> "formatCellContent"]
    /\ ret' = formatCellContent(args.content, args.width, args.alignment)
    /\ UNCHANGED <<tableStyles, registered, renderer, err, config, colWidths, result, args,
                   renders, png>>

\* a renderer holding each style, a table to render
InitTable ==
    /\ renderer \in {[kind |-> "ASCIITableRenderer", Style |-> s] : s \in RenderStyles}
    /\ config \in TableConfigs
    /\ args = NoValue

\* no renderer, the arguments of a cell function
InitCell ==
    /\ renderer = NoRenderer
    /\ config = PipelineConfig
    /\ args \in CellArgs

InitRender ==
    /\ tableStyles = builtinStyles
    /\ registered = <<>>
    /\ err = NoError
    /\ colWidths = <<>>
    /\ result = <<>>
    /\ call = NoCall
    /\ ret = NoValue
    /\ renders = {}
    /\ png = NoPNG
    /\ (InitTable \/ InitCell)

\* each table is rendered once
NextRender ==
    \/ /\ call.op # "Render"
       /\ RenderTable
    \/ CallParseAlignment
    \/ CallGetDisplayLength
    \/ CallFormatCellContent

SpecRender == InitRender /\ [][NextRender]_vars

---------------------------------------------------------------------------
(* The PNG output on its own: parseLineSegments on every line of Lines,    *)
(* and GeneratePNG on the text of each table of ImageTables, with every    *)
(* font configuration, on every disk.                                      *)

\* the pieces lines are put together from
LinePieces == {<<Star, Star>>, <<Star>>, <<"a">>, <<"U+2502">>}

\* the lines made of n pieces
RECURSIVE LinesOf(_)
LinesOf(n) ==
    IF n = 0 THEN {<<>>}
    ELSE {piece \o line : piece \in LinePieces, line \in LinesOf(n - 1)}

\* the lines made of at most MaxPieces pieces
Lines == UNION {LinesOf(n) : n \in 0..MaxPieces}

\* the argument lists of parseLineSegments
LineArgs == [fn : {"parseLineSegments"}, line : Lines]

\* the font configurations: each path either left out or the custom file
FontConfigs == [Path : {"", CustomFile}, Size : {16}]
PNGConfigs == [ASCIIFont : FontConfigs, TitleFont : FontConfigs, ContentFont : FontConfigs]

\* the tables whose text is turned into an image
ImageTables ==
    {PipelineConfig,
     [Headers |-> <<<<"a">>>>, Rows |-> << <<<<Star, Star, "a", Star, Star>>>> >>,
      Alignment |-> <<>>],
     [Headers |-> <<<<"a">>>>, Rows |-> <<>>, Alignment |-> <<>>]}

CallParseLineSegments ==
    /\ args # NoValue /\ args.fn = "parseLineSegments"
    /\ call' = [op |-> "parseLineSegments"]
    /\ ret' = parseLineSegments(args.line)
    /\ UNCHANGED <<tableStyles, registered, renderer, err, config, colWidths, result, args,
                   renders, png>>

\* no renderer, a line to segment
InitLine ==
    /\ renderer = NoRenderer
    /\ config = PipelineConfig
    /\ args \in LineArgs

\* a renderer and a table, whose text goes to GeneratePNG
InitImage ==
    /\ renderer = [kind |-> "ASCIITableRenderer", Style |-> SingleLineStyle]
    /\ config \in ImageTables
    /\ args = NoValue

InitPNG ==
    /\ tableStyles = builtinStyles
    /\ registered = <<>>
    /\ err = NoError
    /\ colWidths = <<>>
    /\ result = <<>>
    /\ call = NoCall
    /\ ret = NoValue
    /\ renders = {}
    /\ png = NoPNG
    /\ (InitLine \/ InitImage)

\* the caller returns when GeneratePNG has
NextPNG ==
    \/ CallParseLineSegments
    \/ /\ args = NoValue /\ call.op # "GeneratePNG"
       /\ RenderTable
    \/ /\ args = NoValue /\ call.op # "GeneratePNG"
       /\ \E cfg \in PNGConfigs, files \in SUBSET FontFiles, creatable \in BOOLEAN :
             GeneratePNG(result, cfg, files, creatable)

SpecPNG == InitPNG /\ [][NextPNG]_vars

---------------------------------------------------------------------------
(* Reading a rendered artifact back.                                       *)

Max(S) == CHOOSE m \in S : \A n \in S : n <= m
Min(S) == CHOOSE m \in S : \A n \in S : m <= n

\* the pieces of s between the occurrences of the character c
RECURSIVE SplitOn(_, _)
SplitOn(s, c) ==
    LET hits == {i \in 1..Len(s) : s[i] = c}
        first == Min(hits)
    IN  IF hits = {} THEN <<s>>
        ELSE <<SubSeq(s, 1, first - 1)>> \o SplitOn(SubSeq(s, first + 1, Len(s)), c)

\* how often the character c occurs in s
Count(s, c) == Cardinality({i \in 1..Len(s) : s[i] = c})

\* s without its leading and trailing spaces
RECURSIVE Trim(_)
Trim(s) ==
    IF s = <<>> THEN s
    ELSE IF Head(s) = Space THEN Trim(Tail(s))
    ELSE IF s[Len(s)] = Space THEN Trim(SubSeq(s, 1, Len(s) - 1))
    ELSE s

\* whether s holds the emphasis marker "**"
HasMarker(s) == \E i \in 1..(Len(s) - 1) : s[i] = Star /\ s[i + 1] = Star

Spaces(n) == [i \in 1..n |-> Space]

\* Render has returned a grid
Rendered == call.op = "Render" /\ result # <<>>

NumHeaders == Len(config.Headers)
NumRows == Len(config.Rows)

\* the newline-terminated lines of result
OutLines ==
    LET pieces == SplitOn(result, Newline)
    IN  SubSeq(pieces, 1, Len(pieces) - 1)

VerticalGlyph == renderer.Style.Vertical[1]
HorizontalGlyph == renderer.Style.Horizontal[1]

\* among the lines of a grid, the header line
HeaderLine(lines) == lines[2]
\* the line of data row r: after the three head lines, every row but the last
\* is followed by a separator
RowLine(lines, r) == lines[2 * r + 2]

\* the texts between the vertical glyphs of a row line
CellsOf(line) ==
    LET pieces == SplitOn(line, VerticalGlyph)
    IN  SubSeq(pieces, 2, Len(pieces) - 1)

\* the runs between the join glyphs of a border line, its end glyphs dropped
RunsOf(line, join) == SplitOn(SubSeq(line, 2, Len(line) - 1), join[1])

\* the border lines of a grid, each with the join glyph it uses
BorderLines(lines) ==
    {<<lines[1], renderer.Style.TopJoin>>,
     <<lines[3], renderer.Style.Cross>>,
     <<lines[Len(lines)], renderer.Style.BottomJoin>>}
    \cup {<<lines[2 * r + 3], renderer.Style.Cross>> : r \in 1..(NumRows - 1)}

\* the number of cells of data row r that fall under a header
Shown(r) == IF Len(config.Rows[r]) < NumHeaders THEN Len(config.Rows[r]) ELSE NumHeaders

---------------------------------------------------------------------------
(* C1..C10.                                                                *)

\* C1 (as stated): in a rendered grid of N >= 1 headers, the header line and
\* every data-row line hold exactly N + 1 vertical glyphs, whatever the number
\* of cells of the row.
C1_EveryRowLineHasNPlus1Delimiters ==
    Rendered =>
        LET lines == OutLines
        IN  /\ Count(HeaderLine(lines), VerticalGlyph) = NumHeaders + 1
            /\ \A r \in 1..NumRows :
                  Count(RowLine(lines, r), VerticalGlyph) = NumHeaders + 1

ColumnLengths(i) ==
    {getDisplayLength(config.Headers[i])}
    \cup {getDisplayLength(config.Rows[r][i]) :
             r \in {q \in 1..NumRows : Len(config.Rows[q]) >= i}}

LeadingSpaces(alignment, W, L) ==
    CASE alignment = AlignCenter -> (W - L) \div 2
      [] alignment = AlignRight -> W - L - 1
      [] OTHER -> 1

TrailingSpaces(alignment, W, L) ==
    CASE alignment = AlignCenter -> (W - L + 1) \div 2
      [] alignment = AlignRight -> 1
      [] OTHER -> W - L - 1

\* a text padded to width W under an alignment
Padded(text, W, alignment) ==
    Spaces(LeadingSpaces(alignment, W, Len(text))) \o text
    \o Spaces(TrailingSpaces(alignment, W, Len(text)))

\* C4: for a cell whose stripped text has length L, formatted into a width
\* W >= L + 2, formatCellContent returns the stripped text, whole, with 1
\* space before and W-L-1 after (left), W-L-1 before and 1 after (right), or
\* floor((W-L)/2) before and ceil((W-L)/2) after (center).
C4_PaddingFollowsAlignment ==
    (call.op = "formatCellContent"
        /\ args.width >= Len(cleanText(args.content)) + 2) =>
        /\ ret = Padded(cleanText(args.content), args.width, args.alignment)
        /\ Len(ret) = args.width

\* a centred cell with an odd number of spaces to share, and an emphasized text
C4_Witness ==
    /\ call.op = "formatCellContent"
    /\ args.alignment = AlignCenter
    /\ args.content = <<Star, Star, "a", Star, Star>>
    /\ args.width = 6
    /\ ret = <<Space, Space, "a", Space, Space, Space>>

\* C5: Render returns the empty string exactly when the table has no header
\* or no row; with a header and a row the result is not empty.
C5_EmptyExactlyWhenNoHeadersOrNoRows ==
    call.op = "Render" => (result = <<>> <=> (NumHeaders = 0 \/ NumRows = 0))

\* headers but no row: nothing is returned, not even a border
C5_Witness ==
    /\ call.op = "Render"
    /\ NumHeaders > 0
    /\ NumRows = 0
    /\ result = <<>>

\* colWidths[1] + ... + colWidths[n]
RECURSIVE WidthsUpTo(_)
WidthsUpTo(n) == IF n = 0 THEN 0 ELSE colWidths[n] + WidthsUpTo(n - 1)

\* C8: a data row of k cells under N headers renders exactly min(k, N) cells,
\* those of its first min(k, N) cells: the line is the vertical glyph followed
\* by each of these cells at its column's width and a vertical glyph, and
\* nothing else.
C8_RowRendersMinCells ==
    Rendered =>
        LET lines == OutLines
        IN  \A r \in 1..NumRows :
                LET line == RowLine(lines, r)
                    cells == CellsOf(line)
                IN  /\ Len(cells) = Shown(r)
                    /\ \A i \in 1..Shown(r) :
                          Trim(cells[i]) = cleanText(config.Rows[r][i])
                    /\ Count(line, VerticalGlyph) = Shown(r) + 1
                    /\ Len(line) = 1 + Shown(r) + WidthsUpTo(Shown(r))

\* a row of three cells under two headers, and a row of one: two cells and one
C8_Witness ==
    /\ Rendered
    /\ NumHeaders = 2
    /\ \E r \in 1..NumRows :
          Len(config.Rows[r]) = 3 /\ Len(CellsOf(RowLine(OutLines, r))) = 2
    /\ \E r \in 1..NumRows :
          Len(config.Rows[r]) = 1 /\ Len(CellsOf(RowLine(OutLines, r))) = 1

HintReads(hints, i, word) == i <= Len(hints) /\ ToLower(hints[i]) = word

\* the alignment C10 gives column i under the hints
ResolvedAlignment(hints, i) ==
    IF HintReads(hints, i, <<"c","e","n","t","e","r">>)
       \/ HintReads(hints, i, <<"c","e","n","t","r","e">>) THEN AlignCenter
    ELSE IF HintReads(hints, i, <<"r","i","g","h","t">>) THEN AlignRight
    ELSE AlignLeft

\* C10: column i is centred when hint i exists and reads "center" or "centre"
\* in any letter-casing, right-aligned when it reads "right" in any casing,
\* left-aligned otherwise (no hint i, or an unrecognized one); the header cell
\* and every data cell of column i are padded under that one alignment.
C10_AlignmentResolvedPerColumn ==
    /\ call.op = "parseAlignment" => ret = ResolvedAlignment(<<args.align>>, 1)
    /\ Rendered =>
          LET lines == OutLines
              headers == CellsOf(HeaderLine(lines))
          IN  /\ \A i \in 1..NumHeaders :
                    headers[i] =
                        Padded(cleanText(config.Headers[i]), colWidths[i],
                               ResolvedAlignment(config.Alignment, i))
              /\ \A r \in 1..NumRows :
                    LET cells == CellsOf(RowLine(lines, r))
                    IN  \A i \in 1..Shown(r) :
                            cells[i] =
                                Padded(cleanText(config.Rows[r][i]), colWidths[i],
                                       ResolvedAlignment(config.Alignment, i))

\* two columns under the one hint "RIGHT": a narrow cell of column 1 is pushed
\* right, a narrow cell of column 2, which has no hint, stays left
C10_Witness ==
    /\ Rendered
    /\ NumHeaders = 2
    /\ config.Alignment = <<<<"R","I","G","H","T">>>>
    /\ \E r \in 1..NumRows :
          /\ Len(config.Rows[r]) >= 2
          /\ CellsOf(RowLine(OutLines, r))[1] = <<Space, Space, "a", Space>>
          /\ CellsOf(RowLine(OutLines, r))[2] = <<Space, "a", Space, Space>>

---------------------------------------------------------------------------
(* C6, C7: the registry.                                                   *)

BuiltinNames == {SingleLineFull, DoubleLineFull}

\* the lower-cased names registered so far, the built-ins included
RegisteredKeys ==
    BuiltinNames \cup {ToLower(registered[i].name) : i \in 1..Len(registered)}

\* the elements of a list
Elements(list) == {list[i] : i \in 1..Len(list)}

\* C6: after any RegisterTableStyle calls, GetRenderer on a name whose
\* lower-cased form is no registered key returns no renderer and an error
\* carrying the name as given and the complete list of the registered names,
\* once each; that list holds both built-ins, as no operation removes a name.
C6_UnknownStyleListsEveryName ==
    /\ RegisteredKeys \subseteq DOMAIN tableStyles
    /\ (call.op = "GetRenderer" /\ ToLower(call.tableType) \notin RegisteredKeys) =>
          /\ renderer = NoRenderer
          /\ err # NoError
          /\ err.tableType = call.tableType
          /\ Elements(err.types) = RegisteredKeys
          /\ Len(err.types) = Cardinality(RegisteredKeys)
          /\ BuiltinNames \subseteq Elements(err.types)

\* an unknown name looked up after a style was registered under a new name:
\* the error lists three names
C6_Witness ==
    /\ call.op = "GetRenderer"
    /\ call.tableType = <<"n","o","n","e">>
    /\ Len(registered) >= 1
    /\ err # NoError
    /\ Len(err.types) = 3

\* the registrations under the name n, in any letter-casing
RegistrationsOf(n) ==
    {i \in 1..Len(registered) : ToLower(registered[i].name) = ToLower(n)}

\* the style of the most recent registration under n; the built-in one when
\* no call registered n
LastRegistered(n) ==
    IF RegistrationsOf(n) # {} THEN registered[Max(RegistrationsOf(n))].style
    ELSE IF ToLower(n) = SingleLineFull THEN SingleLineStyle
    ELSE DoubleLineStyle

\* GetRenderer(n) on a registered name, in any casing, yields the style
\* registered last under it
C7_LookupYieldsLastRegistered ==
    (call.op = "GetRenderer" /\ ToLower(call.tableType) \in RegisteredKeys) =>
        /\ err = NoError
        /\ renderer # NoRenderer
        /\ renderer.Style = LastRegistered(call.tableType)

\* a RegisterTableStyle step leaves the entries under other names as they
\* were, and changes nothing when it repeats the registration before it
C7_RegisterStep ==
    (call'.op = "RegisterTableStyle" /\ Len(registered') = Len(registered) + 1) =>
        /\ \A k \in DOMAIN tableStyles :
              k # ToLower(call'.name) =>
                  k \in DOMAIN tableStyles' /\ tableStyles'[k] = tableStyles[k]
        /\ (registered # <<>>
              /\ registered[Len(registered)] = [name |-> call'.name, style |-> call'.style])
              => tableStyles' = tableStyles

\* C7: after any RegisterTableStyle calls, GetRenderer(n) succeeds for any
\* letter-casing of a registered n and yields the style of the most recent
\* registration under n (last write wins, built-ins included); registering
\* the same (name, style) twice leaves the table as after registering it
\* once, and entries under other names are unchanged.
C7_LastWriteWinsCaseInsensitive ==
    []C7_LookupYieldsLastRegistered /\ [][C7_RegisterStep]_vars

\* "plain" looked up after PLAIN and then plain were registered with
\* different styles: the second style is returned
C7_Witness ==
    /\ call.op = "GetRenderer"
    /\ call.tableType = <<"P","l","a","i","n">>
    /\ Len(registered) = 2
    /\ registered[1].name = <<"P","L","A","I","N">>
    /\ registered[2].name = <<"p","l","a","i","n">>
    /\ registered[1].style # registered[2].style
    /\ renderer # NoRenderer
    /\ renderer.Style = registered[2].style

---------------------------------------------------------------------------
(* The image of a table.                                                   *)

\* GeneratePNG has returned an image
Painted == call.op = "GeneratePNG" /\ png.err = NoError

\* whether a cell is written as **text**
IsEmphasized(cell) ==
    /\ Len(cell) >= 5
    /\ SubSeq(cell, 1, 2) = <<Star, Star>>
    /\ SubSeq(cell, Len(cell) - 1, Len(cell)) = <<Star, Star>>
    /\ \A k \in 3..(Len(cell) - 2) : cell[k] # Star

\* the text between the markers of such a cell
Enclosed(cell) == SubSeq(cell, 3, Len(cell) - 2)

\* the cells Render shows: the headers and, of each row, the cells under one
ShownCells ==
    {config.Headers[i] : i \in 1..NumHeaders}
    \cup UNION {{config.Rows[r][i] : i \in 1..Shown(r)} : r \in 1..NumRows}

\* the glyphs of a style, as characters
GlyphsOf(style) == {style[field][1] : field \in DOMAIN style}

\* the segments of all lines of the image
AllSegments ==
    UNION {{png.segments[k][j] : j \in 1..Len(png.segments[k])} : k \in 1..Len(png.segments)}

\* C11: when the text Render returned is handed to GeneratePNG, every shown
\* cell written as **text** has a HeaderText segment holding that text, so
\* that it is painted in the title font; of the other segments, those of
\* border glyphs are ASCIIText and those of cell text ContentText.
C11_EmphasizedCellsUseTitleFont ==
    Painted =>
        /\ \A cell \in ShownCells :
              IsEmphasized(cell) =>
                  \E seg \in AllSegments :
                      seg.Type = HeaderText /\ seg.Text = Enclosed(cell)
        /\ \A seg \in AllSegments :
              seg.Type # HeaderText =>
                  \A k \in 1..Len(seg.Text) :
                      (seg.Type = ASCIIText) <=> (seg.Text[k] \in GlyphsOf(renderer.Style))

---------------------------------------------------------------------------
(* Render as a function.                                                   *)

---------------------------------------------------------------------------
(* The order of the lines.                                                 *)

\* whether line is a border from the glyph left to the glyph right, with
\* horizontal and join glyphs between them
IsBorder(line, left, join, right) ==
    /\ Len(line) >= 2
    /\ line[1] = left[1]
    /\ line[Len(line)] = right[1]
    /\ \A k \in 2..(Len(line) - 1) : line[k] \in {HorizontalGlyph, join[1]}

\* whether line is the cell line of the given cells: a vertical glyph, then
\* each cell's clean text, padded, and a vertical glyph after it
IsCellLine(line, cells, n) ==
    /\ line # <<>>
    /\ line[1] = VerticalGlyph
    /\ line[Len(line)] = VerticalGlyph
    /\ Len(CellsOf(line)) = n
    /\ \A i \in 1..n : Trim(CellsOf(line)[i]) = cleanText(cells[i])

---------------------------------------------------------------------------
(* The segments of a line.                                                 *)

\* parseLineSegments has returned the segments of args.line
Segmented == call.op = "parseLineSegments"

\* C14: the segments parseLineSegments returns are maximal runs: none is
\* empty, and no two consecutive ones have the same classification, the
\* boundaries of emphasis runs included.
C14_SegmentsAreMaximalRuns ==
    Segmented =>
        /\ \A k \in 1..Len(ret) : ret[k].Text # <<>>
        /\ \A k \in 1..(Len(ret) - 1) : ret[k].Type # ret[k + 1].Type

\* the glyphs of every style in the registry
RegistryGlyphs == UNION {GlyphsOf(tableStyles[name]) : name \in DOMAIN tableStyles}

\* C15: whatever styles were registered, outside the emphasis runs of the
\* image's lines the glyphs of every registered style are ASCIIText and
\* every other character is ContentText.
C15_RegisteredGlyphsAreStructural ==
    Painted =>
        \A seg \in AllSegments :
            seg.Type # HeaderText =>
                \A k \in 1..Len(seg.Text) :
                    (seg.Type = ASCIIText) <=> (seg.Text[k] \in RegistryGlyphs)

\* whether the characters of line from offset start to offset end are an
\* emphasis run: "**", one or more characters other than "*", "**"
IsRun(line, start, end) ==
    /\ 0 <= start /\ start + 5 <= end /\ end <= Len(line)
    /\ Slice(line, start, start + 2) = <<Star, Star>>
    /\ Slice(line, end - 2, end) = <<Star, Star>>
    /\ \A k \in (start + 3)..(end - 2) : line[k] # Star

\* whether matches are the matched runs of line: runs, one after the other,
\* and every run of the line starts inside a match or is one
AreMatchedRuns(line, matches) ==
    /\ \A k \in 1..Len(matches) : IsRun(line, matches[k][1], matches[k][2])
    /\ \A k \in 1..(Len(matches) - 1) : matches[k][2] <= matches[k + 1][1]
    /\ \A start \in 0..Len(line), end \in 0..Len(line) :
          IsRun(line, start, end) =>
              \E k \in 1..Len(matches) :
                  /\ matches[k][1] <= start
                  /\ start < matches[k][2]
                  /\ (matches[k][1] = start => matches[k][2] = end)

\* the positions of the markers of the matches, counted from 1
MarkerPositions(matches) ==
    UNION {{matches[k][1] + 1, matches[k][1] + 2, matches[k][2] - 1, matches[k][2]} :
              k \in 1..Len(matches)}

\* line without the characters at the given positions, from position i on
RECURSIVE Without(_, _, _)
Without(line, positions, i) ==
    IF i > Len(line) THEN <<>>
    ELSE (IF i \in positions THEN <<>> ELSE <<line[i]>>) \o Without(line, positions, i + 1)

IsHeaderSegment(seg) == seg.Type = HeaderText

\* C16: the texts of the segments of a line, concatenated in output order,
\* are the line without the two markers of each matched emphasis run, and
\* the HeaderText segments hold, in order, the texts the matched marker
\* pairs enclose.
C16_SegmentsSpellTheLineWithoutMarkers ==
    Segmented =>
        LET line == args.line
            matches == FindAllStringSubmatchIndex(line)
            headers == SelectSeq(ret, IsHeaderSegment)
        IN  /\ AreMatchedRuns(line, matches)
            /\ fullText(ret) = Without(line, MarkerPositions(matches), 1)
            /\ Len(headers) = Len(matches)
            /\ \A k \in 1..Len(matches) :
                  headers[k].Text = Slice(line, matches[k][1] + 2, matches[k][2] - 2)

\* a line with a border glyph, an emphasis run and, outside the run, a star
\* that is kept
C16_Witness ==
    /\ Segmented
    /\ Len(SelectSeq(ret, IsHeaderSegment)) = 1
    /\ \E k \in 1..Len(ret) : ret[k].Type = ASCIIText
    /\ \E k \in 1..Len(ret) :
          /\ ret[k].Type = ContentText
          /\ \E i \in 1..Len(ret[k].Text) : ret[k].Text[i] = Star
    /\ Len(fullText(ret)) = Len(args.line) - 4

---------------------------------------------------------------------------
(* The painted lines.                                                      *)

\* the font configuration of a classification
ConfigOf(cfg, type) ==
    IF type = ASCIIText THEN cfg.ASCIIFont
    ELSE IF type = HeaderText THEN cfg.TitleFont
    ELSE cfg.ContentFont

\* the face a segment of a classification is to be drawn with
FaceOf(type) == newFace(png.fonts[type], ConfigOf(call.config, type).Size)

\* the advance of the first j segments of a line, each in its own face
RECURSIVE AdvanceOf(_, _)
AdvanceOf(lineSegs, j) ==
    IF j = 0 THEN 0
    ELSE AdvanceOf(lineSegs, j - 1) + MeasureString(FaceOf(lineSegs[j].Type), lineSegs[j].Text)

\* the baseline of line k: one line height of the structural face per line
Baseline(k) == Padding + FaceOf(ASCIIText).Ascent + (k - 1) * lineHeight(FaceOf(ASCIIText))

\* one draw per segment of line k, in the segment's font, at the cumulative
\* advance
DrawsOfLine(k) ==
    [j \in 1..Len(png.segments[k]) |->
        [text |-> png.segments[k][j].Text,
         font |-> png.fonts[png.segments[k][j].Type],
         size |-> ConfigOf(call.config, png.segments[k][j].Type).Size,
         x |-> Padding + AdvanceOf(png.segments[k], j - 1),
         y |-> Baseline(k)]]

RECURSIVE DrawsFrom(_)
DrawsFrom(k) ==
    IF k > Len(png.segments) THEN <<>> ELSE DrawsOfLine(k) \o DrawsFrom(k + 1)

\* C17: renderText draws each segment with the font of its classification,
\* at the x of the cumulative advance of the segments painted before it on
\* the line and at the line's baseline, which goes down one line height per
\* line.
C17_EachSegmentDrawnInItsFont ==
    Painted => png.draws = DrawsFrom(1)

---------------------------------------------------------------------------
(* The fonts of an image.                                                  *)

\* GeneratePNG has returned, with an image or an error
Generated == call.op = "GeneratePNG"

TextTypes == {ASCIIText, HeaderText, ContentText}

\* whether a path or font name is found on the disk of the call
Found(path) ==
    \/ path \in call.files
    \/ path \in DOMAIN FileOfName /\ FileOfName[path] \in call.files

\* the system font of a classification's own kind
OwnSystemFile(type) ==
    IF type = ASCIIText THEN MonoFile
    ELSE IF type = HeaderText THEN BoldFile
    ELSE SansFile

\* whether the face of a classification can be resolved: its configured
\* path if it has one, else the system font of its kind
Resolvable(type) ==
    IF ConfigOf(call.config, type).Path # "" THEN Found(ConfigOf(call.config, type).Path)
    ELSE OwnSystemFile(type) \in call.files

\* the errors GeneratePNG returns for fonts
FontErrors ==
    {[kind |-> "failed to find system fonts and no paths specified"],
     [kind |-> "failed to load ASCII font"],
     [kind |-> "failed to load title font"],
     [kind |-> "failed to load content font"]}

StandIns(type) ==
    IF type = ASCIIText THEN <<MonoFile, SansFile, BoldFile>>
    ELSE IF type = HeaderText THEN <<BoldFile, SansFile>>
    ELSE <<SansFile, BoldFile>>

\* the first of the files that is on the disk of the call, or ""
RECURSIVE FirstFound(_)
FirstFound(fontFiles) ==
    IF fontFiles = <<>> THEN ""
    ELSE IF Head(fontFiles) \in call.files THEN Head(fontFiles)
    ELSE FirstFound(Tail(fontFiles))

\* the font path of a classification: the configured one, or a system font
Settled(type) ==
    IF ConfigOf(call.config, type).Path # "" THEN ConfigOf(call.config, type).Path
    ELSE FirstFound(StandIns(type))

---------------------------------------------------------------------------
(* A renderer and the registry.                                            *)

\* a RegisterTableStyle step leaves the renderer, the table and the text
\* as they were; a Render step leaves the renderer and the style table as
\* they were, and its text is recorded for the style the renderer holds
C19_Step ==
    /\ call'.op = "RegisterTableStyle" =>
          /\ renderer' = renderer
          /\ config' = config
          /\ result' = result
    /\ call'.op = "Render" =>
          /\ renderer' = renderer
          /\ tableStyles' = tableStyles
          /\ registered' = registered
          /\ [style |-> renderer.Style, config |-> config, text |-> result'] \in renders'

\* C19: a renderer keeps the style GetRenderer gave it: no later
\* RegisterTableStyle call, one that overwrites the name it was looked up
\* under included, changes the renderer or what it renders, and Render
\* never changes the style table.
C19_RendererKeepsItsStyle ==
    [](\A a, b \in renders : (a.style = b.style /\ a.config = b.config) => a.text = b.text)
    /\ [][C19_Step]_vars

\* a renderer of the built-in single-line style renders the grid of that
\* style twice, the second time after its name was overwritten with another
C19_Witness ==
    /\ call.op = "Render"
    /\ call.repeat
    /\ renderer.Style = SingleLineStyle
    /\ tableStyles[SingleLineFull] # SingleLineStyle
    /\ renders = {[style |-> SingleLineStyle, config |-> config, text |-> result]}

====
